---- MODULE Spec2Model ----
(***************************************************************************)
(* Model of async-nats/src/service/endpoint.rs: the Endpoint request       *)
(* stream (poll_next, stop) and the per-endpoint statistics record Inner   *)
(* with its projection to Stats.                                           *)
(***************************************************************************)
EXTENDS Integers, Sequences, FiniteSets, TLC

\* ---------------------------------------------------------------- bounds
MaxMsgs == 3        \* raw messages the transport delivers in one run
BufCap == 2         \* messages the Subscription Source buffers at once
CmdCap == 1         \* capacity of the client's command queue
MaxFires == 2       \* sends on the shutdown broadcast channel
MaxRecords == 3     \* record operations in one run of the registry
MaxResponds == 1    \* Requests of the Endpoint whose handler records

\* ------------------------------------------------------------- constants
Sid == 1            \* self.requests.sid, the Endpoint's subscription id
None == "None"      \* Option::None (max: None, shutdown_future: None)

EndpointNames == {"orders.process", "orders.cancel"}
Handlers == {"h1", "h2"}
Durations == {50000000, 150000000}   \* nanoseconds (50ms, 150ms)

VARIABLES
    \* Endpoint fields
    shutdown,          \* Option<broadcast::Receiver<()>>: TRUE = Some
    shutdown_future,   \* None, "Waiting" (Some, not completed), "Done" (Some, completed)
    buf,               \* requests: messages buffered in the Subscriber
    srcClosed,         \* requests: the Subscriber's channel has been closed
    cmds,              \* requests.sender: the client's command queue
    cmdsOpen,          \* the receiving end of the command queue is alive
    stats,             \* Arc<Mutex<Endpoints>>: endpoint name -> Inner
    \* collaborators
    chan,              \* what the shutdown receiver would observe
    fires,             \* sends on the shutdown channel so far
    delivered,         \* messages delivered by the transport so far
    wakers,            \* sources holding the task's waker
    woken,             \* the task has been woken since its last poll
    \* observation of the latest calls
    last,              \* outcome of the latest poll_next
    lastMsg,           \* message of the latest Request (0 if none)
    lastWait,          \* what the shutdown branch of the latest poll_next did
    pre,               \* state in which the latest poll_next started
    yielded,           \* messages yielded as Requests, in order
    handled,           \* Requests whose handler has recorded its outcome
    unsubAttempts,     \* try_send(Unsubscribe) calls made by poll_next
    pollUnsubs,        \* Unsubscribe commands enqueued by poll_next
    recvResult,        \* result the shutdown wait resolved with
    owed,              \* messages buffered when shutdown first fired, not yet yielded
    scenarioB,         \* shutdown fired on an idle source, nothing delivered since
    stopResult,        \* result of the latest stop()
    stopAck,           \* the transport's answer to the latest stop()
    ended,             \* poll_next has reported the end of the sequence
    \* registry under concurrent handlers
    lock,              \* holder of the registry mutex (None when free)
    hpc,               \* handler -> position inside record
    harg,              \* handler -> arguments of its record
    done,              \* endpoint name -> totals of the completed records
    snap,              \* latest snapshot taken (name None before any)
    nrec,              \* record operations started
    \* several Endpoints of one service
    eps                \* subscription id -> Endpoint and what it observed

epVars == <<shutdown, shutdown_future, buf, srcClosed, cmds, cmdsOpen, chan,
            fires,
            delivered, wakers, woken, last, lastMsg, lastWait, pre, yielded, handled,
            unsubAttempts, pollUnsubs, recvResult, owed, scenarioB, stopResult,
            stopAck, ended, eps>>
epVarsButHandled == <<shutdown, shutdown_future, buf, srcClosed, cmds,
                      cmdsOpen, chan,
                      fires, delivered, wakers, woken, last, lastMsg, lastWait, pre,
                      yielded, unsubAttempts, pollUnsubs, recvResult, owed,
                      scenarioB, stopResult, stopAck, ended, eps>>
regVars == <<lock, hpc, harg, done, snap, nrec>>
vars == <<epVars, stats, regVars>>

\* ------------------------------------------------------- Inner and Stats
\* #[derive(Default)] for Inner: the counters of a fresh entry.
InnerDefault ==
    [requests |-> 0, errors |-> 0, processing_time |-> 0,
     average_processing_time |-> 0, last_error |-> None, schema |-> None]

\* Faulty variant of StatsFrom: the two counters copied into each other.
StatsFromSwapped(inner) ==
    [requests |-> inner.errors,
     errors |-> inner.requests,
     processing_time |-> inner.processing_time,
     average_processing_time |-> inner.average_processing_time,
     last_error |-> inner.last_error]

\* Faulty variant of StatsFrom: the total copied into the average.
StatsFromTotalAsAverage(inner) ==
    [requests |-> inner.requests,
     errors |-> inner.errors,
     processing_time |-> inner.processing_time,
     average_processing_time |-> inner.processing_time,
     last_error |-> inner.last_error]

\* Faulty variant of StatsFrom: the last error left out of the snapshot.
StatsFromNoError(inner) ==
    [requests |-> inner.requests,
     errors |-> inner.errors,
     processing_time |-> inner.processing_time,
     average_processing_time |-> inner.average_processing_time,
     last_error |-> None]

\* impl From<Inner> for Stats: the published snapshot of one entry.
StatsFrom(inner) ==
    [requests |-> inner.requests,
     errors |-> inner.errors,
     processing_time |-> inner.processing_time,
     average_processing_time |-> inner.average_processing_time,
     last_error |-> inner.last_error]

\* The statistics update a handler makes for one finished Request, in the
\* order of its writes: the request count, the error, the time, the average.
IncRequests(inner) == [inner EXCEPT !.requests = @ + 1]

RecordError(inner, err) ==
    IF err = None THEN inner
    ELSE [inner EXCEPT !.errors = @ + 1, !.last_error = err]

AddTime(inner, d) == [inner EXCEPT !.processing_time = @ + d]

Average(inner) ==
    IF inner.requests > 0 THEN inner.processing_time \div inner.requests ELSE 0

Recompute(inner) == [inner EXCEPT !.average_processing_time = Average(inner)]

record(inner, d, err) ==
    Recompute(AddTime(RecordError(IncRequests(inner), err), d))

\* ------------------------------------------------------------- Endpoint
EndpointName == "orders.process"     \* self.endpoint
Errors == {"e1", "e2"}               \* errors a handler may report

\* Faulty variant of recv: only a received value ends the wait, a closed or
\* lagged receiver keeps waiting.
recvValueOnly(ch) ==
    IF ch = "value" THEN "Ok" ELSE "Pending"

\* Faulty variant of recv: a receive that does not wait, its result ready
\* (and ignored) even while the channel is empty.
recvEager(ch) ==
    CASE ch = "empty" -> "Ok"
      [] ch = "value" -> "Ok"
      [] ch = "lagged" -> "Lagged"
      [] ch = "closed" -> "Closed"

\* receiver.recv().await on the shutdown channel as the receiver sees it.
recv(ch) ==
    CASE ch = "empty" -> "Pending"
      [] ch = "value" -> "Ok"
      [] ch = "lagged" -> "Lagged"
      [] ch = "closed" -> "Closed"

\* Faulty variant of FuturePoll: a wait that stays ready once resolved.
FuturePollFused(fut, ch) == recv(ch)

\* shutdown.as_mut().poll(cx) on the boxed future, which is the block
\* `async move { receiver.recv().await }`: a pending block polls recv, and
\* a block that has completed panics when it is resumed ("`async fn`
\* resumed after completion"), whatever the channel holds.
FuturePoll(fut, ch) ==
    IF fut = "Done" THEN "Panic" ELSE recv(ch)

\* Faulty variant of try_send: the Err of a failed send is unwrapped.
try_sendUnwrapped(q, open, cmd) ==
    IF open /\ Len(q) < CmdCap
    THEN [ok |-> TRUE, q |-> Append(q, cmd), raised |-> FALSE]
    ELSE [ok |-> FALSE, q |-> q, raised |-> TRUE]

\* self.requests.sender.try_send(cmd).ok(): the send fails when the queue
\* is full or closed, and .ok() discards the Err, so nothing is raised.
try_send(q, open, cmd) ==
    IF open /\ Len(q) < CmdCap
    THEN [ok |-> TRUE, q |-> Append(q, cmd), raised |-> FALSE]
    ELSE [ok |-> FALSE, q |-> q, raised |-> FALSE]

\* Command::Unsubscribe { sid: self.requests.sid, max: None }
Unsubscribe == [kind |-> "Unsubscribe", sid |-> Sid, max |-> None]

\* Faulty variant of SubscriberPoll: the newest buffered message first.
SubscriberPollNewest(b, closed) ==
    IF b # <<>> THEN [res |-> "Request", msg |-> b[Len(b)],
                      buf |-> SubSeq(b, 1, Len(b) - 1)]
    ELSE IF closed THEN [res |-> "End", msg |-> 0, buf |-> b]
    ELSE [res |-> "Pending", msg |-> 0, buf |-> b]

\* self.requests.poll_next_unpin(cx) and the match on its result.
SubscriberPoll(b, closed) ==
    IF b # <<>> THEN [res |-> "Request", msg |-> Head(b), buf |-> Tail(b)]
    ELSE IF closed THEN [res |-> "End", msg |-> 0, buf |-> b]
    ELSE [res |-> "Pending", msg |-> 0, buf |-> b]

\* The state a poll starts in, kept for the observation of its outcome.
PreState ==
    [fut |-> shutdown_future, chan |-> chan,
     head |-> IF buf = <<>> THEN 0 ELSE Head(buf),
     closed |-> srcClosed, owed |-> IF owed = <<>> THEN 0 ELSE Head(owed),
     ended |-> ended, scenB |-> scenarioB,
     room |-> (cmdsOpen /\ Len(cmds) < CmdCap)]

\* Faulty variant of AfterWait: the wait is dropped once it has resolved.
AfterWaitCleared(ready) ==
    IF ready THEN None ELSE "Waiting"

\* self.shutdown_future after the shutdown branch: Some(wait) in both of
\* its arms, completed if the wait resolved in this poll.
AfterWait(ready) ==
    IF ready THEN "Done" ELSE "Waiting"

\* Endpoint::poll_next where the shutdown branch panics: resuming the
\* completed wait, take().unwrap() on an absent receiver, or a send that
\* raises.
PollPanics ==
    \/ shutdown_future # None /\ FuturePoll(shutdown_future, chan) = "Panic"
    \/ shutdown_future = None /\ ~shutdown
    \/ /\ shutdown_future # None
       /\ FuturePoll(shutdown_future, chan) \notin {"Pending", "Panic"}
       /\ try_send(cmds, cmdsOpen, Unsubscribe).raised

poll_next ==
    /\ pre' = PreState
    /\ woken' = FALSE
    /\ IF PollPanics
       THEN /\ last' = "Panic"
            /\ lastMsg' = 0
            /\ lastWait' = "Panic"
            /\ UNCHANGED <<shutdown, shutdown_future, buf, cmds, wakers,
                           yielded, unsubAttempts, pollUnsubs, recvResult,
                           owed, ended>>
       ELSE LET w == IF shutdown_future = None THEN "Armed"
                     ELSE FuturePoll(shutdown_future, chan)
                ready == w \notin {"Armed", "Pending"}
                sent == try_send(cmds, cmdsOpen, Unsubscribe)
                src == SubscriberPoll(buf, srcClosed)
            IN  /\ shutdown' = FALSE
                /\ shutdown_future' = AfterWait(ready)
                /\ lastWait' = w
                /\ recvResult' = IF ready THEN w ELSE recvResult
                /\ cmds' = IF ready THEN sent.q ELSE cmds
                /\ unsubAttempts' = unsubAttempts + (IF ready THEN 1 ELSE 0)
                /\ pollUnsubs' = pollUnsubs + (IF ready /\ sent.ok THEN 1 ELSE 0)
                /\ wakers' = ((wakers \ (IF ready THEN {"shutdown"} ELSE {}))
                                \cup (IF w = "Pending" THEN {"shutdown"} ELSE {}))
                                \cup (IF src.res = "Pending" THEN {"requests"} ELSE {})
                /\ buf' = src.buf
                /\ last' = src.res
                /\ lastMsg' = src.msg
                /\ yielded' = IF src.res = "Request"
                              THEN Append(yielded, src.msg) ELSE yielded
                /\ owed' = IF src.res = "Request" /\ owed # <<>>
                           THEN Tail(owed) ELSE owed
                /\ ended' = (ended \/ src.res = "End")
    /\ UNCHANGED <<srcClosed, stats, chan, fires, delivered, handled,
                   scenarioB, stopResult, stopAck, regVars, cmdsOpen, eps>>

\* Faulty variant of StopResult: the transport's failure is swallowed.
StopResultSwallowed(ok) == "Ok"

\* Endpoint::stop: the result of requests.unsubscribe() mapped to io::Error.
StopResult(ok) ==
    IF ok THEN "Ok" ELSE "failed to unsubscribe"

\* Wake the polling task if `source` holds its waker.
Wake(source) ==
    /\ woken' = (woken \/ source \in wakers)
    /\ wakers' = wakers \ {source}

\* requests.unsubscribe().await: the transport confirms the teardown of the
\* subscription, or reports failure and leaves the subscription alone.
stop ==
    \E ok \in BOOLEAN :
        /\ stopResult' = StopResult(ok)
        /\ stopAck' = IF ok THEN "confirmed" ELSE "failed"
        /\ srcClosed' = (srcClosed \/ ok)
        /\ IF ok /\ ~srcClosed THEN Wake("requests")
           ELSE UNCHANGED <<wakers, woken>>
        /\ UNCHANGED <<shutdown, shutdown_future, buf, cmds, stats, chan,
                       fires, delivered, last, lastMsg, lastWait, pre, yielded, handled,
                       unsubAttempts, pollUnsubs, recvResult, owed,
                       scenarioB, ended, regVars, cmdsOpen, eps>>

\* ---------------------------------------------------------- collaborators
\* What the receiver observes after one more send on the broadcast channel:
\* the value, or a lag when the channel's capacity has been exceeded.
AfterSend(ch) ==
    IF ch = "empty" THEN {"value"} ELSE {ch, "lagged"}

\* The service sends on the shutdown channel.
Fire ==
    /\ fires < MaxFires
    /\ chan # "closed"
    /\ fires' = fires + 1
    /\ chan' \in AfterSend(chan)
    /\ owed' = IF chan = "empty" THEN buf ELSE owed
    /\ scenarioB' = IF chan = "empty" THEN (buf = <<>> /\ ~srcClosed)
                    ELSE scenarioB
    /\ Wake("shutdown")
    /\ UNCHANGED <<shutdown, shutdown_future, buf, srcClosed, cmds, stats,
                   delivered, last, lastMsg, lastWait, pre, yielded, handled,
                   unsubAttempts, pollUnsubs, recvResult, stopResult, stopAck, ended,
                   regVars, cmdsOpen, eps>>

\* Every sender of the shutdown channel is dropped before any send.
CloseChannel ==
    /\ chan = "empty"
    /\ chan' = "closed"
    /\ owed' = buf
    /\ scenarioB' = (buf = <<>> /\ ~srcClosed)
    /\ Wake("shutdown")
    /\ UNCHANGED <<shutdown, shutdown_future, buf, srcClosed, cmds, stats,
                   fires, delivered, last, lastMsg, lastWait, pre, yielded, handled,
                   unsubAttempts, pollUnsubs, recvResult, stopResult, stopAck, ended,
                   regVars, cmdsOpen, eps>>

\* The transport delivers the next raw message to the subscription.
Deliver ==
    /\ ~srcClosed
    /\ delivered < MaxMsgs
    /\ Len(buf) < BufCap
    /\ delivered' = delivered + 1
    /\ buf' = Append(buf, delivered + 1)
    /\ scenarioB' = FALSE
    /\ Wake("requests")
    /\ UNCHANGED <<shutdown, shutdown_future, srcClosed, cmds, stats, chan,
                   fires, last, lastMsg, lastWait, pre, yielded, handled,
                   unsubAttempts, pollUnsubs, recvResult, owed, stopResult, stopAck,
                   ended, regVars, cmdsOpen, eps>>

\* The transport takes the next command off the queue; an Unsubscribe with
\* max = None for the subscription stops its deliveries at once and closes
\* the Subscriber's channel, and one for a closed subscription is a no-op.
ProcessCommand ==
    /\ cmdsOpen
    /\ cmds # <<>>
    /\ cmds' = Tail(cmds)
    /\ LET c == Head(cmds)
           closes == c.kind = "Unsubscribe" /\ c.sid = Sid /\ c.max = None
       IN  /\ srcClosed' = (srcClosed \/ closes)
           /\ IF closes /\ ~srcClosed THEN Wake("requests")
              ELSE UNCHANGED <<wakers, woken>>
    /\ UNCHANGED <<shutdown, shutdown_future, buf, stats, chan, fires,
                   delivered, last, lastMsg, lastWait, pre, yielded, handled,
                   unsubAttempts, pollUnsubs, recvResult, owed, scenarioB,
                   stopResult, stopAck, ended, regVars, cmdsOpen, eps>>

\* Another user of the client enqueues a command of its own.
OtherCommand ==
    /\ cmdsOpen
    /\ Len(cmds) < CmdCap
    /\ cmds' = Append(cmds, [kind |-> "Publish", sid |-> 0, max |-> None])
    /\ UNCHANGED <<shutdown, shutdown_future, buf, srcClosed, stats, chan,
                   fires, delivered, wakers, woken, last, lastMsg, lastWait, pre,
                   yielded, handled, unsubAttempts, pollUnsubs, recvResult,
                   owed, scenarioB, stopResult, stopAck, ended, regVars, cmdsOpen, eps>>

\* The subscription ends for a reason of the transport's own.
SourceEnd ==
    /\ ~srcClosed
    /\ srcClosed' = TRUE
    /\ Wake("requests")
    /\ UNCHANGED <<shutdown, shutdown_future, buf, cmds, stats, chan, fires,
                   delivered, last, lastMsg, lastWait, pre, yielded, handled,
                   unsubAttempts, pollUnsubs, recvResult, owed, scenarioB,
                   stopResult, stopAck, ended, regVars, cmdsOpen, eps>>

\* The connection handler ends: the command queue is closed and the
\* subscription ends with it.
ConnectionLost ==
    /\ cmdsOpen
    /\ cmdsOpen' = FALSE
    /\ srcClosed' = TRUE
    /\ IF ~srcClosed THEN Wake("requests") ELSE UNCHANGED <<wakers, woken>>
    /\ UNCHANGED <<shutdown, shutdown_future, buf, cmds, stats, chan, fires,
                   delivered, last, lastMsg, lastWait, pre, yielded, handled,
                   unsubAttempts, pollUnsubs, recvResult, owed, scenarioB,
                   stopResult, stopAck, ended, regVars, eps>>

\* The handler of a yielded Request records its outcome through the stats
\* handle the Request carries (one update under the registry lock).
Respond ==
    /\ handled < Len(yielded)
    /\ handled < MaxResponds
    /\ \E d \in Durations, err \in {None} \cup Errors :
          stats' = [stats EXCEPT ![EndpointName] = record(@, d, err)]
    /\ handled' = handled + 1
    /\ UNCHANGED <<epVarsButHandled, regVars>>

\* ------------------------------------------------------- Stats Registry
\* Faulty variant of MutexFree: the registry shared without its mutex.
MutexFreeUnguarded(l) == TRUE

\* stats.lock(): the mutex of Arc<Mutex<Endpoints>> is granted when free.
MutexFree(l) == l = None

\* record, step 0: the handler takes the lock and fixes its arguments.
RecordBegin(h) ==
    /\ hpc[h] = "idle"
    /\ nrec < MaxRecords
    /\ MutexFree(lock)
    /\ lock' = h
    /\ nrec' = nrec + 1
    /\ \E e \in EndpointNames, d \in Durations, err \in {None} \cup Errors :
          harg' = [harg EXCEPT ![h] = [name |-> e, d |-> d, err |-> err]]
    /\ hpc' = [hpc EXCEPT ![h] = "locked"]
    /\ UNCHANGED <<epVars, stats, done, snap>>

RecordRequests(h) ==
    /\ hpc[h] = "locked"
    /\ stats' = [stats EXCEPT ![harg[h].name] = IncRequests(@)]
    /\ hpc' = [hpc EXCEPT ![h] = "counted"]
    /\ UNCHANGED <<epVars, lock, harg, done, snap, nrec>>

RecordOutcome(h) ==
    /\ hpc[h] = "counted"
    /\ stats' = [stats EXCEPT ![harg[h].name] = RecordError(@, harg[h].err)]
    /\ hpc' = [hpc EXCEPT ![h] = "judged"]
    /\ UNCHANGED <<epVars, lock, harg, done, snap, nrec>>

RecordTime(h) ==
    /\ hpc[h] = "judged"
    /\ stats' = [stats EXCEPT ![harg[h].name] = AddTime(@, harg[h].d)]
    /\ hpc' = [hpc EXCEPT ![h] = "timed"]
    /\ UNCHANGED <<epVars, lock, harg, done, snap, nrec>>

RecordAverage(h) ==
    /\ hpc[h] = "timed"
    /\ stats' = [stats EXCEPT ![harg[h].name] = Recompute(@)]
    /\ hpc' = [hpc EXCEPT ![h] = "averaged"]
    /\ UNCHANGED <<epVars, lock, harg, done, snap, nrec>>

\* record, last step: the guard is dropped and the record is complete.
RecordEnd(h) ==
    /\ hpc[h] = "averaged"
    /\ lock' = None
    /\ done' = [done EXCEPT ![harg[h].name] =
                  [n |-> @.n + 1,
                   errs |-> @.errs + (IF harg[h].err = None THEN 0 ELSE 1),
                   sum |-> @.sum + harg[h].d,
                   lastErr |-> IF harg[h].err = None THEN @.lastErr
                               ELSE harg[h].err,
                   since |-> IF harg[h].err = None /\ @.lastErr # None
                             THEN @.since + 1 ELSE 0]]
    /\ hpc' = [hpc EXCEPT ![h] = "idle"]
    /\ UNCHANGED <<epVars, stats, harg, snap, nrec>>

\* snapshot(name): under the lock, the entry projected to Stats.
Snapshot(e) ==
    /\ MutexFree(lock)
    /\ snap' = [name |-> e, stats |-> StatsFrom(stats[e]), of |-> done[e]]
    /\ snap' # snap
    /\ UNCHANGED <<epVars, stats, lock, hpc, harg, done, nrec>>

\* ------------------------------------------- several Endpoints, one signal
Ids == {1, 2}       \* the subscription ids of the service's Endpoints

\* Command::Unsubscribe { sid: self.requests.sid, max: None } of Endpoint i.
UnsubscribeOf(i) == [Unsubscribe EXCEPT !.sid = i]

\* Faulty variant of Listener: one listener shared by all the Endpoints.
ListenerShared(es, i) ==
    [shutdown |-> es[1].shutdown, shutdown_future |-> es[1].shutdown_future]

\* self.shutdown and self.shutdown_future: the listener Endpoint i owns.
Listener(es, i) ==
    [shutdown |-> es[i].shutdown, shutdown_future |-> es[i].shutdown_future]

\* An Endpoint as constructed, with nothing observed yet.
NewEndpoint ==
    [shutdown |-> TRUE, shutdown_future |-> None, buf |-> <<>>,
     closed |-> FALSE, chan |-> "empty", got |-> <<>>, yielded |-> <<>>,
     last |-> "none", attempts |-> 0, preFut |-> None, preChan |-> "empty"]

groupFrame == <<shutdown, shutdown_future, buf, srcClosed, cmdsOpen, stats,
                chan, wakers, woken, last, lastMsg, lastWait, pre, yielded,
                handled, unsubAttempts, pollUnsubs, recvResult, owed,
                scenarioB, stopResult, stopAck, ended, regVars>>

\* Endpoint::poll_next of Endpoint i.
GroupPoll(i) ==
    LET e == eps[i]
        l == Listener(eps, i)
        panics == \/ /\ l.shutdown_future # None
                     /\ FuturePoll(l.shutdown_future, e.chan) = "Panic"
                  \/ l.shutdown_future = None /\ ~l.shutdown
        w == IF l.shutdown_future = None THEN "Armed"
             ELSE FuturePoll(l.shutdown_future, e.chan)
        ready == w \notin {"Armed", "Pending"}
        sent == try_send(cmds, cmdsOpen, UnsubscribeOf(i))
        src == SubscriberPoll(e.buf, e.closed)
    IN  /\ eps' = [eps EXCEPT ![i] =
               IF panics
               THEN [e EXCEPT !.last = "Panic",
                              !.preFut = e.shutdown_future,
                              !.preChan = e.chan]
               ELSE [e EXCEPT !.shutdown = FALSE,
                              !.shutdown_future = AfterWait(ready),
                              !.buf = src.buf,
                              !.yielded = IF src.res = "Request"
                                          THEN Append(@, src.msg) ELSE @,
                              !.last = src.res,
                              !.attempts = @ + (IF ready THEN 1 ELSE 0),
                              !.preFut = e.shutdown_future,
                              !.preChan = e.chan]]
        /\ cmds' = IF ~panics /\ ready THEN sent.q ELSE cmds
        /\ UNCHANGED <<fires, delivered, groupFrame>>

\* One send on the shutdown channel, observed by every receiver.
GroupFire ==
    /\ fires < MaxFires
    /\ fires' = fires + 1
    /\ \E seen \in [Ids -> {"value", "lagged"}] :
          /\ \A i \in Ids : seen[i] \in AfterSend(eps[i].chan)
          /\ eps' = [i \in Ids |-> [eps[i] EXCEPT !.chan = seen[i]]]
    /\ UNCHANGED <<cmds, delivered, groupFrame>>

\* The transport delivers the next raw message to the subscription i.
GroupDeliver(i) ==
    /\ ~eps[i].closed
    /\ delivered < MaxMsgs
    /\ Len(eps[i].buf) < BufCap
    /\ delivered' = delivered + 1
    /\ eps' = [eps EXCEPT ![i].buf = Append(@, delivered + 1),
                          ![i].got = Append(@, delivered + 1)]
    /\ UNCHANGED <<cmds, fires, groupFrame>>

\* The transport takes the next command off the queue and ends the
\* subscription an Unsubscribe with max = None names.
GroupProcess ==
    /\ cmds # <<>>
    /\ cmds' = Tail(cmds)
    /\ LET c == Head(cmds)
       IN  eps' = IF c.kind = "Unsubscribe" /\ c.sid \in Ids /\ c.max = None
                  THEN [eps EXCEPT ![c.sid].closed = TRUE]
                  ELSE eps
    /\ UNCHANGED <<fires, delivered, groupFrame>>

\* --------------------------------------------------------- specifications
\* The totals of no completed record: their number, errors and durations,
\* the latest error and the successes recorded since it.
NoRecords ==
    [n |-> 0, errs |-> 0, sum |-> 0, lastErr |-> None, since |-> 0]

Init ==
    /\ shutdown = TRUE
    /\ shutdown_future = None
    /\ buf = <<>>
    /\ srcClosed = FALSE
    /\ cmds = <<>>
    /\ cmdsOpen = TRUE
    /\ stats = [e \in EndpointNames |-> InnerDefault]
    /\ chan = "empty"
    /\ fires = 0
    /\ delivered = 0
    /\ wakers = {}
    /\ woken = FALSE
    /\ last = "none"
    /\ lastMsg = 0
    /\ lastWait = "none"
    /\ pre = [fut |-> None, chan |-> "empty", head |-> 0, closed |-> FALSE,
              owed |-> 0, ended |-> FALSE, scenB |-> FALSE, room |-> TRUE]
    /\ yielded = <<>>
    /\ handled = 0
    /\ unsubAttempts = 0
    /\ pollUnsubs = 0
    /\ recvResult = "none"
    /\ owed = <<>>
    /\ scenarioB = FALSE
    /\ stopResult = "none"
    /\ stopAck = "none"
    /\ ended = FALSE
    /\ lock = None
    /\ hpc = [h \in Handlers |-> "idle"]
    /\ harg = [h \in Handlers |-> [name |-> None, d |-> 0, err |-> None]]
    /\ done = [e \in EndpointNames |-> NoRecords]
    /\ snap = [name |-> None, stats |-> StatsFrom(InnerDefault),
               of |-> NoRecords]
    /\ nrec = 0
    /\ eps = [i \in Ids |-> NewEndpoint]

\* One Endpoint, its collaborators and the handlers of its Requests.
Next ==
    \/ poll_next
    \/ stop
    \/ Fire
    \/ CloseChannel
    \/ Deliver
    \/ ProcessCommand
    \/ OtherCommand
    \/ SourceEnd
    \/ ConnectionLost
    \/ Respond

Spec == Init /\ [][Next]_vars

\* The registry under concurrent handlers and readers.
RegistryNext ==
    \/ \E h \in Handlers : RecordBegin(h)
    \/ \E h \in Handlers : RecordRequests(h)
    \/ \E h \in Handlers : RecordOutcome(h)
    \/ \E h \in Handlers : RecordTime(h)
    \/ \E h \in Handlers : RecordAverage(h)
    \/ \E h \in Handlers : RecordEnd(h)
    \/ \E e \in EndpointNames : Snapshot(e)

RegistrySpec == Init /\ [][RegistryNext]_vars

\* The Endpoints of one service under one shutdown signal.
GroupNext ==
    \/ \E i \in Ids : GroupPoll(i)
    \/ GroupFire
    \/ \E i \in Ids : GroupDeliver(i)
    \/ GroupProcess

GroupSpec == Init /\ [][GroupNext]_vars

\* ---------------------------------------------------------------- claims
Polled == last # "none"

\* C1: over any polls, deliveries and shutdown fires, poll_next enqueues at
\* most one Unsubscribe command for the Endpoint's subscription id.
C1_AtMostOneUnsubscribe ==
    /\ pollUnsubs <= 1
    /\ Len(SelectSeq(cmds, LAMBDA c : c = Unsubscribe)) <= 1

\* C1 witness: the signal was sent twice, the command was enqueued, and the
\* stream has been polled again after the wait resolved.
C1_Witness ==
    fires >= 2 /\ pollUnsubs = 1 /\ Polled /\ pre.fut = "Done"

\* C2 (as claimed): every poll made while a message that was buffered when
\* shutdown fired is still owed yields that message as the next Request.
C2_Draining ==
    (Polled /\ pre.owed # 0) => (last = "Request" /\ lastMsg = pre.owed)

\* C3: before any shutdown signal the Requests yielded, followed by the
\* messages still buffered, are exactly the delivered messages in delivery
\* order, and a poll yields the buffer's head, or Pending when the source
\* is blocked and not ended.
C3_InDeliveryOrder ==
    chan = "empty" =>
        /\ yielded \o buf = [i \in 1..delivered |-> i]
        /\ Polled =>
              /\ pre.head # 0 => (last = "Request" /\ lastMsg = pre.head)
              /\ (pre.head = 0 /\ ~pre.closed) => last = "Pending"

\* C3 witness (Scenario A): M1 and M2 delivered and yielded, then Pending.
C3_Witness ==
    /\ chan = "empty" /\ delivered = 2 /\ yielded = <<1, 2>>
    /\ last = "Pending" /\ ~srcClosed

\* C4 (as claimed, Scenario B): shutdown fired on an idle source, the wait
\* has resolved and the source has since closed (stop() never called): the
\* poll yields the end of the sequence, exactly one Unsubscribe with
\* max = None having been sent.
C4_ScenarioB ==
    (/\ Polled /\ stopAck = "none"
     /\ pre.scenB /\ pre.fut = "Done" /\ pre.closed /\ pre.head = 0)
        => (last = "End" /\ unsubAttempts = 1 /\ Unsubscribe.max = None)

\* C5 (as claimed): once a poll has reported the end of the sequence,
\* every later poll reports it again, whatever the listener state.
C5_EndIsPermanent ==
    (Polled /\ pre.ended) => last = "End"

\* C6: stop() returns Ok when the transport confirms and the error "failed
\* to unsubscribe" when it fails, and changes neither the registry nor the
\* shutdown listener.
C6_Stop ==
    /\ [](stopAck = "confirmed" => stopResult = "Ok")
    /\ [](stopAck = "failed" => stopResult = "failed to unsubscribe")
    /\ [][stop => UNCHANGED <<stats, shutdown, shutdown_future>>]_vars

\* C6 witness (Scenario D): stop() failed on an armed Endpoint whose
\* registry entry already counts a request.
C6_Witness ==
    /\ stopAck = "failed" /\ stopResult = "failed to unsubscribe"
    /\ stats[EndpointName].requests > 0
    /\ shutdown_future = "Waiting"

\* C7: a wait that resolves because the channel is closed or the receiver
\* lagged fires the listener like a received value: the listener is Fired,
\* the Unsubscribe is issued and the poll ends as a poll of the source
\* ends, without an error.
C7_ClosedOrLaggedFires ==
    (Polled /\ pre.fut = "Waiting" /\ pre.chan \in {"closed", "lagged"}) =>
        /\ shutdown_future = "Done"
        /\ unsubAttempts = 1
        /\ recvResult \in {"Closed", "Lagged"}
        /\ last = (IF pre.head # 0 THEN "Request"
                   ELSE IF pre.closed THEN "End" ELSE "Pending")

\* C7 witness: the armed wait resolved on a lagged receiver and the
\* command was enqueued.
C7_Witness ==
    /\ Polled /\ pre.fut = "Waiting" /\ pre.chan = "lagged"
    /\ recvResult = "Lagged" /\ pollUnsubs = 1

\* C8: every registry entry, and every snapshot, has errors <= requests.
C8_ErrorsAtMostRequests ==
    /\ \A e \in EndpointNames : stats[e].errors <= stats[e].requests
    /\ snap.stats.errors <= snap.stats.requests

\* C8 witness: a snapshot with an error and a success, another record
\* under way.
C8_Witness ==
    /\ snap.stats.errors = 1 /\ snap.stats.requests = 2
    /\ \E h \in Handlers : hpc[h] = "counted"

\* C9: at every observation point (the lock free, or a snapshot) the
\* average is processing_time / requests, zero when requests = 0; 50ms
\* then 150ms gives requests = 2, 200ms and 100ms.
C9_AverageIsDerived ==
    LET Derived(r) ==
            r.average_processing_time =
                (IF r.requests = 0 THEN 0
                 ELSE r.processing_time \div r.requests)
    IN  /\ lock = None => \A e \in EndpointNames : Derived(stats[e])
        /\ Derived(snap.stats)
        /\ (snap.stats.requests = 2 /\ snap.stats.processing_time = 200000000)
              => snap.stats.average_processing_time = 100000000

\* C9 witness (Scenario C): the snapshot after 50ms and 150ms.
C9_Witness ==
    /\ snap.name = "orders.process"
    /\ snap.stats.requests = 2
    /\ snap.stats.processing_time = 200000000
    /\ snap.stats.average_processing_time = 100000000

\* C10: with no record under way each entry holds exactly the completed
\* records (their number, their errors, the sum of their durations), and
\* every snapshot shows the completed records of its entry and no part of
\* a record under way.
C10_RecordIsAtomic ==
    LET Totals(r, t) ==
            /\ r.requests = t.n
            /\ r.errors = t.errs
            /\ r.processing_time = t.sum
    IN  /\ lock = None => \A e \in EndpointNames : Totals(stats[e], done[e])
        /\ Totals(snap.stats, snap.of)

\* C10 witness: three records by the handlers on one entry, one of them an
\* error, seen by a snapshot.
C10_Witness ==
    /\ lock = None
    /\ snap.name # None /\ snap.of.n = 3 /\ snap.of.errs = 1
    /\ snap.of.sum = 250000000

\* What a poll of the Subscription Source returns in the state `p` a poll
\* started in.
SourceOutcome(p) ==
    IF p.head # 0 THEN "Request" ELSE IF p.closed THEN "End" ELSE "Pending"

\* The values of lastWait with which the wait itself was polled.
WaitPolled == {"Pending", "Ok", "Lagged", "Closed", "Panic"}

\* C11 (as claimed): Fired is terminal: a poll that starts after the wait
\* has resolved does not poll the wait again and only polls the source.
C11_FiredIsTerminal ==
    (Polled /\ pre.fut = "Done") =>
        (lastWait \notin WaitPolled /\ last = SourceOutcome(pre))

\* C12 (as claimed): the poll that arms the listener also checks the wait,
\* so a first poll made after the signal has fired leaves the listener
\* Fired and has issued the Unsubscribe.
C12_ArmThenCheck ==
    (Polled /\ pre.fut = None /\ pre.chan # "empty") =>
        /\ lastWait \in {"Ok", "Lagged", "Closed"}
        /\ shutdown_future = "Done"
        /\ unsubAttempts = 1

\* C13 (as claimed): after a poll that returned Pending with the wait not
\* resolved, and until one of them wakes the task, both the Subscription
\* Source and the shutdown wait hold the task's waker.
C13_WakersRegistered ==
    (Polled /\ last = "Pending" /\ shutdown_future # "Done" /\ ~woken) =>
        {"shutdown", "requests"} \subseteq wakers

\* C14 (as claimed): every poll polls the Subscription Source once,
\* whatever the shutdown branch did: it returns the buffered head as a
\* Request when there is one, else the end of the sequence or Pending.
C14_SourcePolledEveryPoll ==
    Polled => /\ last = SourceOutcome(pre)
              /\ pre.head # 0 => lastMsg = pre.head

\* C15: when the wait resolves in a poll and the Unsubscribe cannot be
\* enqueued (queue full or closed), the failure is swallowed: the listener
\* is Fired, nothing is enqueued or raised, and the same poll returns what
\* the poll of the Subscription Source returns.
C15_SendFailureSwallowed ==
    (Polled /\ pre.fut = "Waiting" /\ pre.chan # "empty" /\ ~pre.room) =>
        /\ lastWait \in {"Ok", "Lagged", "Closed"}
        /\ shutdown_future = "Done"
        /\ unsubAttempts = 1 /\ pollUnsubs = 0
        /\ last = SourceOutcome(pre)

\* C15 witness: the wait resolved on a full queue and the same poll
\* yielded a Request.
C15_Witness ==
    /\ Polled /\ pre.fut = "Waiting" /\ pre.chan # "empty" /\ ~pre.room
    /\ cmdsOpen /\ Len(cmds) = CmdCap /\ pollUnsubs = 0
    /\ shutdown_future = "Done" /\ last = "Request"

\* C16 (as claimed): with stop() confirmed and the shutdown signal fired,
\* in whatever order, the subscription is unsubscribed and, until the end
\* of the sequence has been reported, a poll of the closed source drains
\* it: it yields the buffered head, or the end once the buffer is empty.
C16_StopAndShutdownConverge ==
    (Polled /\ stopAck = "confirmed" /\ chan # "empty") =>
        /\ srcClosed
        /\ (pre.closed /\ ~pre.ended) =>
              /\ last = SourceOutcome(pre)
              /\ pre.head # 0 => lastMsg = pre.head

\* C19: exactly one of the raw receiver and the wrapped wait is present in
\* every state: the receiver until the first poll, the wait from then on,
\* so take().unwrap() never fails and a poll panics only on a resolved wait.
C19_ExactlyOneListener ==
    /\ shutdown <=> (shutdown_future = None)
    /\ shutdown <=> ~Polled
    /\ last = "Panic" => pre.fut = "Done"

\* C19 witness: several polls after the first, the wait resolved.
C19_Witness ==
    /\ ~shutdown /\ shutdown_future = "Done"
    /\ Len(yielded) >= 2 /\ pre.fut = "Waiting"

\* C20: while the shutdown signal has neither fired nor been closed,
\* poll_next has attempted and enqueued no Unsubscribe; it attempts one
\* only once the wait has resolved, and every Unsubscribe in the queue
\* carries the Endpoint's subscription id with max = None.
C20_UnsubscribeOnlyOnShutdown ==
    /\ chan = "empty" => (unsubAttempts = 0 /\ pollUnsubs = 0)
    /\ unsubAttempts > 0 => recvResult \in {"Ok", "Lagged", "Closed"}
    /\ lastWait \in {"Armed", "Pending"} => unsubAttempts = 0
    /\ \A i \in 1..Len(cmds) :
          cmds[i].kind = "Unsubscribe" =>
              (cmds[i].sid = Sid /\ cmds[i].max = None)

\* C20 witness: two Requests yielded over several polls with no signal.
C20_Witness ==
    /\ chan = "empty" /\ fires = 0
    /\ Len(yielded) >= 2 /\ lastWait = "Pending" /\ unsubAttempts = 0

\* C18: a handler's error is recorded as data only: last_error is the
\* latest error among the completed records (set by an error, left alone
\* by every later success, never cleared), errors counts them, no counter
\* ever decreases, and recording changes nothing of the Endpoint stream.
C18_ErrorIsData ==
    /\ [](lock = None =>
            \A e \in EndpointNames : stats[e].last_error = done[e].lastErr)
    /\ [](snap.stats.last_error = snap.of.lastErr)
    /\ [](\A e \in EndpointNames :
            (stats[e].errors > 0) <=> (stats[e].last_error # None))
    /\ [][\A e \in EndpointNames :
            /\ stats'[e].requests >= stats[e].requests
            /\ stats'[e].errors >= stats[e].errors
            /\ stats'[e].processing_time >= stats[e].processing_time
            /\ stats[e].last_error # None => stats'[e].last_error # None]_vars
    /\ [][stats' # stats => UNCHANGED epVars]_vars

\* C18 witness: a snapshot that still shows the error e1 after a later
\* successful record on the same entry.
C18_Witness ==
    /\ snap.name # None
    /\ snap.stats.last_error = "e1" /\ snap.stats.errors = 1
    /\ snap.of.since >= 1 /\ snap.stats.requests >= 2


\* C17: Endpoints created from one shutdown channel are independent. One
\* fire reaches the receiver of every Endpoint; each Endpoint arms and
\* resolves its own wait by its own polls only, sends at most one
\* Unsubscribe and only for its own subscription id, is closed only by its
\* own Unsubscribe, and yields exactly the Requests delivered to its own
\* subscription, in order.
C17_IndependentEndpoints ==
    /\ fires > 0 => \A i \in Ids : eps[i].chan # "empty"
    /\ \A k \in 1..Len(cmds) :
          cmds[k].kind = "Unsubscribe" =>
              /\ cmds[k].sid \in Ids
              /\ eps[cmds[k].sid].attempts = 1
    /\ \A i \in Ids :
          LET e == eps[i]
              returned == e.last \notin {"none", "Panic"}
          IN  /\ e.shutdown <=> e.last = "none"
              /\ e.shutdown <=> e.shutdown_future = None
              /\ e.attempts = IF e.shutdown_future = "Done" THEN 1 ELSE 0
              /\ e.closed => e.shutdown_future = "Done"
              /\ (returned /\ e.preFut = None) =>
                     e.shutdown_future = "Waiting"
              /\ (returned /\ e.preFut = "Waiting") =>
                     (e.shutdown_future = "Done" <=> e.preChan # "empty")
              /\ e.yielded \o e.buf = e.got

\* After a single fire both Endpoints resolved their own wait, each sent
\* its own Unsubscribe and each yielded the Request of its own subscription.
C17_Witness ==
    /\ fires = 1
    /\ \A i \in Ids : /\ eps[i].shutdown_future = "Done"
                      /\ eps[i].attempts = 1
                      /\ eps[i].closed
                      /\ Len(eps[i].yielded) = 1
    /\ eps[1].yielded # eps[2].yielded

====
